---------------------------- MODULE Spec2Model ----------------------------
(***************************************************************************)
(* A model of BigNum.c: the growable limb buffer (Big), big_reserve,       *)
(* big_normalize, big_zero, the decimal parser (big_mul10_add,             *)
(* big_from_dec), the schoolbook multiplier (big_mul), the hex printer     *)
(* (big_print_hex) and main.                                               *)
(*                                                                         *)
(* Scaling.  TLC's integers are 32 bits wide, so the widths of the C types  *)
(* are scaled down, keeping their relations:                               *)
(*   uint32_t  : LimbHexDigits hex digits, values 0 .. Base-1              *)
(*   uint64_t  : twice the limb width,     values 0 .. Wide-1 (Base*Base)  *)
(*   size_t    : SizeBits bits,            values 0 .. SizeMax             *)
(*   char[4096]: BufSize characters                                        *)
(* Every narrowing cast and every unsigned overflow of the source is kept  *)
(* as a reduction modulo the scaled width.  Base stays above 10, so the    *)
(* carry of big_mul10_add (at most 9) fits a limb as it does in the source.*)
(*                                                                         *)
(* A Big is the record [n, cap, d]: d is the storage realloc really gave   *)
(* (a sequence, d[k+1] is the C d[k]); a slot never written holds Uninit.  *)
(* cap < 0 marks that the process has exited inside big_reserve.           *)
(***************************************************************************)
EXTENDS Integers, Sequences, FiniteSets, TLC

VARIABLES pc, input, stdin, a_str, b_str, A, B, C, i, j, carry,
          out, err, status, need, nc

vars == <<pc, input, stdin, a_str, b_str, A, B, C, i, j, carry,
          out, err, status, need, nc>>

---------------------------------------------------------------------------
(* Widths *)

LimbHexDigits == 2
SizeBits == 10
BufSize == 12
MaxLimbs == 2
MaxStrLen == 4

RECURSIVE Pow(_, _)
Pow(b, e) == IF e = 0 THEN 1 ELSE b * Pow(b, e - 1)

Base == Pow(16, LimbHexDigits)
Wide == Base * Base
SizeMod == Pow(2, SizeBits)
SizeMax == SizeMod - 1
LimbBytes == 4
MinCap == 4

Limb == 0 .. (Base - 1)
Uninit == -1

Lo32(v) == v % Base
Hi32(v) == v \div Base
U64(v) == v % Wide
SizeT(v) == v % SizeMod

---------------------------------------------------------------------------
(* Big and the utilities *)

big_init == [n |-> 0, cap |-> 0, d |-> <<>>]

Exited == [n |-> 0, cap |-> -1, d |-> <<>>]

HasExited(x) == x.cap < 0

Store(d, k, v) == [d EXCEPT ![k + 1] = v]

(* while (nc < need) { if (nc > (SIZE_MAX >> 1)) exit(1); nc <<= 1; }      *)
(* -1 when the overflow guard exits.                                       *)
RECURSIVE GrowCap(_, _)
GrowCap(c, want) ==
    IF c >= want THEN c
    ELSE IF c > SizeMax \div 2 THEN -1
    ELSE GrowCap(SizeT(c * 2), want)

(* realloc(p, bytes) when it succeeds: the old contents up to the new     *)
(* size, the rest indeterminate.                                          *)
Realloc(d, bytes) ==
    [k \in 1 .. (bytes \div LimbBytes) |-> IF k <= Len(d) THEN d[k] ELSE Uninit]

ReallocBytes(c) == SizeT(c * LimbBytes)

big_reserve(x, want) ==
    IF x.cap >= want THEN x
    ELSE LET c == GrowCap(IF x.cap # 0 THEN x.cap ELSE MinCap, want)
         IN  IF c < 0 THEN Exited
             ELSE [n |-> x.n, cap |-> c, d |-> Realloc(x.d, ReallocBytes(c))]

(* Variant: the trimming loop written with n > 1, never reaching n = 0. *)
RECURSIVE TrimLenKeepOne(_, _)
TrimLenKeepOne(d, n) == IF n > 1 /\ d[n] = 0 THEN TrimLenKeepOne(d, n - 1) ELSE n

RECURSIVE TrimLen(_, _)
TrimLen(d, n) == IF n > 0 /\ d[n] = 0 THEN TrimLen(d, n - 1) ELSE n

(* Variant: no trimming at all. *)
big_normalize_NoTrim(x) == x

big_normalize(x) == [x EXCEPT !.n = TrimLen(x.d, x.n)]

big_zero(x) ==
    LET r == big_reserve(x, 1)
    IN  IF HasExited(r) THEN Exited
        ELSE [r EXCEPT !.d = Store(r.d, 0, 0), !.n = 1]

---------------------------------------------------------------------------
(* Decimal parsing: x = x*10 + digit *)

IsSpace(c) == c \in {" ", "\t", "\n", "\f", "\r"}

DigitChars == <<"0", "1", "2", "3", "4", "5", "6", "7", "8", "9">>

IsDigit(c) == \E k \in 1 .. 10 : DigitChars[k] = c

DigitVal(c) == (CHOOSE k \in 1 .. 10 : DigitChars[k] = c) - 1

(* for (i = 0; i < x->n; ++i) { cur = d[i]*10 + carry; d[i] = (uint32_t)cur;*)
(*                              carry = cur >> 32; }                       *)
RECURSIVE Mul10Loop(_, _, _, _)
Mul10Loop(d, k, n, cy) ==
    IF k >= n THEN [d |-> d, carry |-> cy]
    ELSE LET cur == U64(d[k + 1] * 10 + cy)
         IN  Mul10Loop(Store(d, k, Lo32(cur)), k + 1, n, Hi32(cur))

(* Variant: the final carry is dropped instead of appended. *)
big_mul10_add_NoAppend(x, digit) ==
    LET x0 == IF x.n = 0 THEN big_zero(x) ELSE x
    IN  IF HasExited(x0) THEN Exited
        ELSE [x0 EXCEPT !.d = Mul10Loop(x0.d, 0, x0.n, digit).d]

big_mul10_add(x, digit) ==
    LET x0 == IF x.n = 0 THEN big_zero(x) ELSE x
    IN  IF HasExited(x0) THEN Exited
        ELSE LET r == Mul10Loop(x0.d, 0, x0.n, digit)
             IN  IF r.carry # 0
                 THEN LET g == big_reserve([x0 EXCEPT !.d = r.d], x0.n + 1)
                      IN  IF HasExited(g) THEN Exited
                          ELSE [g EXCEPT !.d = Store(g.d, x0.n, Lo32(r.carry)),
                                         !.n = x0.n + 1]
                 ELSE [x0 EXCEPT !.d = r.d]

CharAt(s, p) == IF p <= Len(s) THEN s[p] ELSE "NUL"

RECURSIVE SkipSpace(_, _)
SkipSpace(s, p) == IF IsSpace(CharAt(s, p)) THEN SkipSpace(s, p + 1) ELSE p

(* The digit loop of big_from_dec from position p on: [ok, x].             *)
RECURSIVE DigitLoop(_, _, _)
DigitLoop(x, s, p) ==
    IF HasExited(x) THEN [ok |-> FALSE, x |-> Exited]
    ELSE IF CharAt(s, p) = "NUL" \/ IsSpace(CharAt(s, p))
         THEN LET t == big_normalize(x)
              IN  [ok |-> TRUE, x |-> IF t.n = 0 THEN big_zero(t) ELSE t]
    ELSE IF ~IsDigit(CharAt(s, p)) THEN [ok |-> FALSE, x |-> x]
    ELSE DigitLoop(big_mul10_add(x, DigitVal(CharAt(s, p))), s, p + 1)

(* Variant: a leading '-' is skipped like '+'. *)
big_from_dec_AnySign(x, s) ==
    LET z  == big_zero(x)
        p0 == SkipSpace(s, 1)
        p1 == IF CharAt(s, p0) \in {"+", "-"} THEN p0 + 1 ELSE p0
    IN  IF HasExited(z) THEN [ok |-> FALSE, x |-> Exited]
        ELSE IF ~IsDigit(CharAt(s, p1)) THEN [ok |-> FALSE, x |-> z]
        ELSE DigitLoop(z, s, p1)

big_from_dec(x, s) ==
    LET z  == big_zero(x)
        p0 == SkipSpace(s, 1)
        p1 == IF CharAt(s, p0) = "+" THEN p0 + 1 ELSE p0
    IN  IF HasExited(z) THEN [ok |-> FALSE, x |-> Exited]
        ELSE IF ~IsDigit(CharAt(s, p1)) THEN [ok |-> FALSE, x |-> z]
        ELSE DigitLoop(z, s, p1)

---------------------------------------------------------------------------
(* Multiplication *)

IsZeroOperand(x) == x.n = 0 \/ (x.n = 1 /\ x.d[1] = 0)

(* Variant: the memset clears one limb too few. *)
MemsetShort(d, cnt) == [k \in 1 .. Len(d) |-> IF k < cnt THEN 0 ELSE d[k]]

(* memset(z->d, 0, rn * sizeof(uint32_t)) *)
Memset0(d, cnt) == [k \in 1 .. Len(d) |-> IF k <= cnt THEN 0 ELSE d[k]]

(* big_reserve(z, rn); memset; z->n = rn *)
MulAlloc(z, a, b) ==
    LET rn == SizeT(a.n + b.n)
        r  == big_reserve(z, rn)
    IN  IF HasExited(r) THEN Exited
        ELSE [r EXCEPT !.d = Memset0(r.d, rn), !.n = rn]

(* sum = (uint64_t)z->d[i+j] + ai * (uint64_t)b->d[j] + carry *)
MulSum(z, a, b, ii, jj, cy) ==
    U64(z.d[ii + jj + 1] + a.d[ii + 1] * b.d[jj + 1] + cy)

(* Variant: the inner loop forgets the carry. *)
MulInnerNoCarry(z, a, b, ii, jj, cy) ==
    LET sum == MulSum(z, a, b, ii, jj, cy)
    IN  [z |-> [z EXCEPT !.d = Store(z.d, ii + jj, Lo32(sum))], carry |-> 0]

(* z->d[i+j] = (uint32_t)sum; carry = sum >> 32 *)
MulInner(z, a, b, ii, jj, cy) ==
    LET sum == MulSum(z, a, b, ii, jj, cy)
    IN  [z |-> [z EXCEPT !.d = Store(z.d, ii + jj, Lo32(sum))], carry |-> Hi32(sum)]

(* Variant: the row's last carry is not stored. *)
MulRowEndDropCarry(z, ii, bn, cy) == z

(* z->d[i+bn] = (uint32_t)((uint64_t)z->d[i+bn] + carry) *)
MulRowEnd(z, ii, bn, cy) ==
    [z EXCEPT !.d = Store(z.d, ii + bn, Lo32(U64(z.d[ii + bn + 1] + cy)))]

(* big_normalize(z); if (z->n == 0) big_zero(z) *)
MulFinish(z) ==
    LET t == big_normalize(z)
    IN  IF t.n = 0 THEN big_zero(t) ELSE t

RECURSIVE MulRow(_, _, _, _, _, _)
MulRow(z, a, b, ii, jj, cy) ==
    IF jj >= b.n THEN MulRowEnd(z, ii, b.n, cy)
    ELSE LET r == MulInner(z, a, b, ii, jj, cy)
         IN  MulRow(r.z, a, b, ii, jj + 1, r.carry)

RECURSIVE MulRows(_, _, _, _)
MulRows(z, a, b, ii) ==
    IF ii >= a.n THEN z ELSE MulRows(MulRow(z, a, b, ii, 0, 0), a, b, ii + 1)

big_mul(z, a, b) ==
    IF IsZeroOperand(a) \/ IsZeroOperand(b) THEN big_zero(z)
    ELSE LET r == MulAlloc(z, a, b)
         IN  IF HasExited(r) THEN Exited ELSE MulFinish(MulRows(r, a, b, 0))

---------------------------------------------------------------------------
(* Hexadecimal output *)

HexChars == <<"0", "1", "2", "3", "4", "5", "6", "7",
              "8", "9", "a", "b", "c", "d", "e", "f">>

(* Variant: every limb printed without zero padding. *)
RECURSIVE PrintfXNoPad(_, _)
PrintfXNoPad(v, width) ==
    IF v < 16 THEN HexChars[v + 1]
    ELSE PrintfXNoPad(v \div 16, width) \o HexChars[(v % 16) + 1]

(* printf("%x") with width 1, printf("%08x") with the limb's full width:   *)
(* at least `width` digits, zero-padded, lowercase.                        *)
RECURSIVE PrintfX(_, _)
PrintfX(v, width) ==
    IF v < 16 /\ width <= 1 THEN HexChars[v + 1]
    ELSE PrintfX(v \div 16, width - 1) \o HexChars[(v % 16) + 1]

(* for (k = x->n - 1; k-- > 0; ) printf("%08x", x->d[k]) *)
RECURSIVE PrintLow(_, _)
PrintLow(d, k) ==
    IF k = 0 THEN "" ELSE PrintfX(d[k], LimbHexDigits) \o PrintLow(d, k - 1)

big_print_hex(x) ==
    IF IsZeroOperand(x) THEN "0x0\n"
    ELSE "0x" \o PrintfX(x.d[x.n], 1) \o PrintLow(x.d, x.n - 1) \o "\n"

---------------------------------------------------------------------------
(* main: the two fgets calls *)

RECURSIVE LineEnd(_, _, _)
LineEnd(s, p, limit) ==
    IF p >= Len(s) \/ p >= limit THEN p
    ELSE IF s[p + 1] = "\n" THEN p + 1
    ELSE LineEnd(s, p + 1, limit)

(* fgets(buf, size, stdin): at most size-1 characters, stopping after a    *)
(* newline; NULL (ok = FALSE) at end of file with nothing read.            *)
fgets(size, stream) ==
    LET e == LineEnd(stream, 0, size - 1)
    IN  [ok   |-> e > 0,
         buf  |-> SubSeq(stream, 1, e),
         rest |-> SubSeq(stream, e + 1, Len(stream))]

Prompt1 == "Enter first (decimal) number: "
Prompt2 == "Enter second (decimal) number: "
InputErrorMsg == "Input error.\n"
InvalidMsg == "Invalid input. Please enter decimal digits only.\n"
ResultMsg == "Result (hex): "
OverflowMsg == "capacity overflow\n"
PerrorMsg == "realloc: Cannot allocate memory\n"

ReadA ==
    /\ pc = "readA"
    /\ fgets(BufSize, stdin).ok
    /\ out' = out \o Prompt1
    /\ a_str' = fgets(BufSize, stdin).buf
    /\ stdin' = fgets(BufSize, stdin).rest
    /\ pc' = "readB"
    /\ UNCHANGED <<input, b_str, A, B, C, i, j, carry, err, status, need, nc>>

ReadAFail ==
    /\ pc = "readA"
    /\ ~fgets(BufSize, stdin).ok
    /\ out' = out \o Prompt1
    /\ err' = err \o InputErrorMsg
    /\ status' = 1
    /\ pc' = "exit"
    /\ UNCHANGED <<input, stdin, a_str, b_str, A, B, C, i, j, carry, need, nc>>

ReadB ==
    /\ pc = "readB"
    /\ fgets(BufSize, stdin).ok
    /\ out' = out \o Prompt2
    /\ b_str' = fgets(BufSize, stdin).buf
    /\ stdin' = fgets(BufSize, stdin).rest
    /\ pc' = "parse"
    /\ UNCHANGED <<input, a_str, A, B, C, i, j, carry, err, status, need, nc>>

ReadBFail ==
    /\ pc = "readB"
    /\ ~fgets(BufSize, stdin).ok
    /\ out' = out \o Prompt2
    /\ err' = err \o InputErrorMsg
    /\ status' = 1
    /\ pc' = "exit"
    /\ UNCHANGED <<input, stdin, a_str, b_str, A, B, C, i, j, carry, need, nc>>

(* if (!big_from_dec(&A, a_str) || !big_from_dec(&B, b_str)) { ... }       *)
(* B is parsed only when A was accepted.                                   *)
ParsedA == big_from_dec(big_init, a_str)
ParsedB == big_from_dec(big_init, b_str)

ParseOk ==
    /\ pc = "parse"
    /\ ParsedA.ok /\ ParsedB.ok
    /\ A' = ParsedA.x
    /\ B' = ParsedB.x
    /\ C' = big_init
    /\ pc' = "mul"
    /\ UNCHANGED <<input, stdin, a_str, b_str, i, j, carry, out, err, status, need, nc>>

ParseInvalid ==
    /\ pc = "parse"
    /\ ~(ParsedA.ok /\ ParsedB.ok)
    /\ err' = err \o (IF HasExited(ParsedA.x) \/ (ParsedA.ok /\ HasExited(ParsedB.x))
                      THEN OverflowMsg ELSE InvalidMsg)
    /\ A' = big_init /\ B' = big_init /\ C' = big_init
    /\ status' = 1
    /\ pc' = "exit"
    /\ UNCHANGED <<input, stdin, a_str, b_str, i, j, carry, out, need, nc>>

---------------------------------------------------------------------------
(* big_mul(&C, &A, &B), one loop iteration at a time *)

MulZero ==
    /\ pc = "mul"
    /\ IsZeroOperand(A) \/ IsZeroOperand(B)
    /\ C' = big_zero(C)
    /\ pc' = "print"
    /\ UNCHANGED <<input, stdin, a_str, b_str, A, B, i, j, carry, out, err, status, need, nc>>

MulStart ==
    /\ pc = "mul"
    /\ ~(IsZeroOperand(A) \/ IsZeroOperand(B))
    /\ C' = MulAlloc(C, A, B)
    /\ i' = 0 /\ j' = 0 /\ carry' = 0
    /\ pc' = IF HasExited(MulAlloc(C, A, B)) THEN "exit" ELSE "mulInner"
    /\ status' = IF HasExited(MulAlloc(C, A, B)) THEN 1 ELSE status
    /\ err' = IF HasExited(MulAlloc(C, A, B)) THEN err \o OverflowMsg ELSE err
    /\ UNCHANGED <<input, stdin, a_str, b_str, A, B, out, need, nc>>

MulInnerStep ==
    /\ pc = "mulInner"
    /\ j < B.n
    /\ C' = MulInner(C, A, B, i, j, carry).z
    /\ carry' = MulInner(C, A, B, i, j, carry).carry
    /\ j' = j + 1
    /\ UNCHANGED <<pc, input, stdin, a_str, b_str, A, B, i, out, err, status, need, nc>>

MulRowEndStep ==
    /\ pc = "mulInner"
    /\ j >= B.n
    /\ C' = MulRowEnd(C, i, B.n, carry)
    /\ i' = i + 1
    /\ j' = 0
    /\ carry' = 0
    /\ pc' = IF i + 1 < A.n THEN "mulInner" ELSE "mulFinish"
    /\ UNCHANGED <<input, stdin, a_str, b_str, A, B, out, err, status, need, nc>>

MulFinishStep ==
    /\ pc = "mulFinish"
    /\ C' = MulFinish(C)
    /\ pc' = "print"
    /\ UNCHANGED <<input, stdin, a_str, b_str, A, B, i, j, carry, out, err, status, need, nc>>

(* printf("Result (hex): "); big_print_hex(&C); big_free x 3; return 0 *)
PrintResult ==
    /\ pc = "print"
    /\ out' = out \o ResultMsg \o big_print_hex(C)
    /\ A' = big_init /\ B' = big_init /\ C' = big_init
    /\ status' = 0
    /\ pc' = "exit"
    /\ UNCHANGED <<input, stdin, a_str, b_str, i, j, carry, err, need, nc>>

---------------------------------------------------------------------------
(* The program: two lines on standard input *)

RECURSIVE Rep(_, _)
Rep(c, k) == IF k = 0 THEN <<>> ELSE <<c>> \o Rep(c, k - 1)

NL == <<"\n">>

Lines ==
    { <<"0">> \o NL,
      <<"0", "0", "0">> \o NL,
      <<"1">> \o NL,
      <<"0", "0", "7">> \o NL,
      <<"2", "5", "5">> \o NL,
      <<"2", "5", "6">> \o NL,
      <<" ", "+", "7">> \o NL,
      <<"-", "5">> \o NL,
      <<"1", "2", "a", "3">> \o NL,
      NL,
      <<"6", "5", "5", "3", "6", " ", "x">> \o NL,
      <<"1", "2", "3", "4", "5", "6", "7", "8", "9">> \o NL,
      <<"9", "8", "7", "6", "5", "4", "3", "2", "1">> \o NL,
      <<"4", "2">>,
      Rep("9", BufSize - 2) \o NL,
      Rep("1", BufSize - 1) \o NL,
      Rep("9", BufSize - 1) \o <<"7">> \o NL }

Inputs == {<<>>} \cup Lines \cup {l1 \o l2 : l1 \in Lines, l2 \in Lines}

Init ==
    /\ pc = "readA"
    /\ input \in Inputs
    /\ stdin = input
    /\ a_str = <<>> /\ b_str = <<>>
    /\ A = big_init /\ B = big_init /\ C = big_init
    /\ i = 0 /\ j = 0 /\ carry = 0
    /\ out = "" /\ err = ""
    /\ status = -1
    /\ need = 0 /\ nc = 0

MulNext == MulZero \/ MulStart \/ MulInnerStep \/ MulRowEndStep \/ MulFinishStep

Next ==
    \/ ReadA \/ ReadAFail \/ ReadB \/ ReadBFail
    \/ ParseOk \/ ParseInvalid
    \/ MulNext
    \/ PrintResult

Spec == Init /\ [][Next]_vars

---------------------------------------------------------------------------
(* big_from_dec alone, on every short text over ParseChars *)

ParseChars == {" ", "\n", "+", "-", "0", "3", "9", "a"}

RECURSIVE StringsUpTo(_)
StringsUpTo(k) ==
    IF k = 0 THEN {<<>>}
    ELSE LET S == StringsUpTo(k - 1)
         IN  S \cup {<<c>> \o t : c \in ParseChars, t \in {u \in S : Len(u) = k - 1}}

Idle ==
    /\ input = <<>> /\ stdin = <<>>
    /\ i = 0 /\ j = 0 /\ carry = 0
    /\ out = "" /\ err = ""
    /\ status = -1
    /\ need = 0 /\ nc = 0

InitParse ==
    /\ pc = "fromdec"
    /\ a_str \in StringsUpTo(MaxStrLen)
    /\ b_str = <<>>
    /\ A = big_init /\ B = big_init /\ C = big_init
    /\ Idle

FromDecOk ==
    /\ pc = "fromdec"
    /\ big_from_dec(A, a_str).ok
    /\ A' = big_from_dec(A, a_str).x
    /\ pc' = "parsed"
    /\ UNCHANGED <<input, stdin, a_str, b_str, B, C, i, j, carry, out, err, status, need, nc>>

FromDecFail ==
    /\ pc = "fromdec"
    /\ ~big_from_dec(A, a_str).ok
    /\ A' = big_from_dec(A, a_str).x
    /\ pc' = "rejected"
    /\ UNCHANGED <<input, stdin, a_str, b_str, B, C, i, j, carry, out, err, status, need, nc>>

NextParse == FromDecOk \/ FromDecFail

SpecParse == InitParse /\ [][NextParse]_vars

---------------------------------------------------------------------------
(* Canonical operands, as big_from_dec leaves them *)

MulLimbs == {0, 1, 3, Base \div 2, Base - 1}
HexLimbs == {0, 1, 9, 10, 15, 16, Base \div 2, Base - 16, Base - 1}

RECURSIVE LimbSeqs(_, _)
LimbSeqs(S, k) ==
    IF k = 0 THEN {<<>>}
    ELSE LET T == LimbSeqs(S, k - 1)
         IN  T \cup {t \o <<v>> : v \in S, t \in {u \in T : Len(u) = k - 1}}

IsCanonicalSeq(q) == Len(q) >= 1 /\ (Len(q) > 1 => q[Len(q)] # 0)

(* The Big holding limbs q in storage grown from empty. *)
MkBig(q) ==
    LET c == GrowCap(MinCap, Len(q))
    IN  [n |-> Len(q), cap |-> c,
         d |-> [k \in 1 .. c |-> IF k <= Len(q) THEN q[k] ELSE Uninit]]

CanonBigs(S, k) == {MkBig(q) : q \in {u \in LimbSeqs(S, k) : IsCanonicalSeq(u)}}

InitMul ==
    /\ pc = "mul"
    /\ A \in CanonBigs(MulLimbs, MaxLimbs)
    /\ B \in CanonBigs(MulLimbs, MaxLimbs)
    /\ C = big_init
    /\ a_str = <<>> /\ b_str = <<>>
    /\ Idle

SpecMul == InitMul /\ [][MulNext]_vars

---------------------------------------------------------------------------
(* big_print_hex alone *)

InitHex ==
    /\ pc = "hex"
    /\ C \in CanonBigs(HexLimbs, MaxLimbs)
    /\ A = big_init /\ B = big_init
    /\ a_str = <<>> /\ b_str = <<>>
    /\ Idle

PrintHex ==
    /\ pc = "hex"
    /\ out' = out \o big_print_hex(C)
    /\ pc' = "printed"
    /\ UNCHANGED <<input, stdin, a_str, b_str, A, B, C, i, j, carry, err, status, need, nc>>

NextHex == PrintHex

SpecHex == InitHex /\ [][NextHex]_vars

---------------------------------------------------------------------------
(* big_normalize alone, then the line that follows each of its calls *)

NormLimbs == {0, 1, Base - 1}

(* The buffers big_normalize is called on: at least one limb, and all      *)
(* limbs zero only for the single limb big_from_dec leaves after "0".      *)
NormBigs ==
    {MkBig(q) : q \in {u \in LimbSeqs(NormLimbs, MaxLimbs + 2) :
                         /\ Len(u) >= 1
                         /\ (Len(u) > 1 => \E k \in 1 .. Len(u) : u[k] # 0)}}

InitNormalize ==
    /\ pc = "normalize"
    /\ A \in NormBigs
    /\ B = A
    /\ C = big_init
    /\ a_str = <<>> /\ b_str = <<>>
    /\ Idle

Normalize ==
    /\ pc = "normalize"
    /\ A' = big_normalize(A)
    /\ pc' = "normalized"
    /\ UNCHANGED <<input, stdin, a_str, b_str, B, C, i, j, carry, out, err, status, need, nc>>

(* if (x->n == 0) big_zero(x) *)
ZeroIfEmpty ==
    /\ pc = "normalized"
    /\ A' = IF A.n = 0 THEN big_zero(A) ELSE A
    /\ pc' = "fixed"
    /\ UNCHANGED <<input, stdin, a_str, b_str, B, C, i, j, carry, out, err, status, need, nc>>

NextNormalize == Normalize \/ ZeroIfEmpty

SpecNormalize == InitNormalize /\ [][NextNormalize]_vars

---------------------------------------------------------------------------
(* big_reserve alone, one statement at a time; B keeps the Big as it was *)

RECURSIVE CapsFrom(_)
CapsFrom(c) ==
    IF c * LimbBytes > SizeMax THEN {} ELSE {c} \cup CapsFrom(c * 2)

ReserveBigs ==
    {[n |-> 0, cap |-> c, d |-> [k \in 1 .. c |-> Uninit]] : c \in {0} \cup CapsFrom(MinCap)}

InitReserve ==
    /\ pc = "reserve"
    /\ A \in ReserveBigs
    /\ B = A
    /\ C = big_init
    /\ need \in 0 .. SizeMax
    /\ nc = 0
    /\ input = <<>> /\ stdin = <<>>
    /\ a_str = <<>> /\ b_str = <<>>
    /\ i = 0 /\ j = 0 /\ carry = 0
    /\ out = "" /\ err = ""
    /\ status = -1

ReserveEnough ==
    /\ pc = "reserve"
    /\ A.cap >= need
    /\ pc' = "returned"
    /\ UNCHANGED <<input, stdin, a_str, b_str, A, B, C, i, j, carry, out, err, status, need, nc>>

ReserveBegin ==
    /\ pc = "reserve"
    /\ A.cap < need
    /\ nc' = IF A.cap # 0 THEN A.cap ELSE MinCap
    /\ pc' = "grow"
    /\ UNCHANGED <<input, stdin, a_str, b_str, A, B, C, i, j, carry, out, err, status, need>>

ReserveDouble ==
    /\ pc = "grow"
    /\ nc < need
    /\ nc <= SizeMax \div 2
    /\ nc' = SizeT(nc * 2)
    /\ UNCHANGED <<pc, input, stdin, a_str, b_str, A, B, C, i, j, carry, out, err, status, need>>

ReserveOverflow ==
    /\ pc = "grow"
    /\ nc < need
    /\ nc > SizeMax \div 2
    /\ err' = err \o OverflowMsg
    /\ status' = 1
    /\ pc' = "exit"
    /\ UNCHANGED <<input, stdin, a_str, b_str, A, B, C, i, j, carry, out, need, nc>>

(* realloc returned non-NULL.  A request of 0 bytes may do so too. *)
ReserveRealloc ==
    /\ pc = "grow"
    /\ nc >= need
    /\ A' = [n |-> A.n, cap |-> nc, d |-> Realloc(A.d, ReallocBytes(nc))]
    /\ pc' = "returned"
    /\ UNCHANGED <<input, stdin, a_str, b_str, B, C, i, j, carry, out, err, status, need, nc>>

(* realloc returned NULL: perror, exit(1) *)
ReserveReallocFail ==
    /\ pc = "grow"
    /\ nc >= need
    /\ err' = err \o PerrorMsg
    /\ status' = 1
    /\ pc' = "exit"
    /\ UNCHANGED <<input, stdin, a_str, b_str, A, B, C, i, j, carry, out, need, nc>>

NextReserve ==
    \/ ReserveEnough \/ ReserveBegin \/ ReserveDouble \/ ReserveOverflow
    \/ ReserveRealloc \/ ReserveReallocFail

SpecReserve == InitReserve /\ [][NextReserve]_vars

---------------------------------------------------------------------------
(* Numeric values.                                                         *)
(*                                                                         *)
(* A value of several limbs does not fit TLC's integers, so values are     *)
(* compared by their residues modulo the six primes of Moduli.  Their      *)
(* product exceeds 2^89; every value compared below is smaller than that   *)
(* (at most 2*(MaxLimbs+1) limbs of 12 bits, or a product of two input     *)
(* lines of at most BufSize+1 decimal digits), so by the Chinese remainder  *)
(* theorem equal residues mean equal values.                               *)

Moduli == {32749, 32719, 32717, 32713, 32707, 32693}

(* sum of d[k] * Base^(k-lo) for k in lo..hi, modulo p *)
RECURSIVE LimbsMod(_, _, _, _)
LimbsMod(d, lo, hi, p) ==
    IF lo > hi THEN 0 ELSE (d[lo] + (Base % p) * LimbsMod(d, lo + 1, hi, p)) % p

ValueRes(x) == [p \in Moduli |-> LimbsMod(x.d, 1, x.n, p)]

(* the numeral q[1..k], most significant digit first, modulo p *)
RECURSIVE DigitsMod(_, _, _, _)
DigitsMod(q, k, radix, p) ==
    IF k = 0 THEN 0 ELSE (DigitsMod(q, k - 1, radix, p) * radix + q[k]) % p

DecRes(q) == [p \in Moduli |-> DigitsMod(q, Len(q), 10, p)]
HexRes(q) == [p \in Moduli |-> DigitsMod(q, Len(q), 16, p)]

MulRes(r, t) == [p \in Moduli |-> (r[p] * t[p]) % p]
Mul10AddRes(r, digit) == [p \in Moduli |-> (r[p] * 10 + digit) % p]

Limbs(x) == SubSeq(x.d, 1, x.n)

Canonical(x) == x.n >= 1 /\ (x.n > 1 => x.d[x.n] # 0)
IsZeroForm(x) == x.n = 1 /\ x.d[1] = 0
IsOne(x) == x.n = 1 /\ x.d[1] = 1

(* The digit run of a text: after the leading whitespace and one optional  *)
(* '+', the longest run of decimal digits.                                 *)
RunStart(s) ==
    LET p == CHOOSE q \in 1 .. Len(s) + 1 :
                 /\ \A k \in 1 .. q - 1 : IsSpace(s[k])
                 /\ (q = Len(s) + 1 \/ ~IsSpace(s[q]))
    IN  IF p <= Len(s) /\ s[p] = "+" THEN p + 1 ELSE p

RunEnd(s) ==
    CHOOSE q \in RunStart(s) - 1 .. Len(s) :
        /\ \A k \in RunStart(s) .. q : IsDigit(s[k])
        /\ (q = Len(s) \/ ~IsDigit(s[q + 1]))

ScannedDigits(s) ==
    [k \in 1 .. (RunEnd(s) - RunStart(s) + 1) |-> DigitVal(s[RunStart(s) + k - 1])]

AllZeroDigits(q) == Len(q) >= 1 /\ \A k \in 1 .. Len(q) : q[k] = 0

---------------------------------------------------------------------------
(* C1: when big_mul returns for canonical operands a and b, the value of   *)
(* the result is value(a) * value(b) and fits an+bn limbs; the result has  *)
(* the same limbs and length as big_mul(b, a); and multiplying by 1 gives  *)
(* the limbs and length of a.                                              *)
MultiplyExact ==
    pc = "print" =>
        /\ ValueRes(C) = MulRes(ValueRes(A), ValueRes(B))
        /\ C.n <= A.n + B.n
        /\ Limbs(C) = Limbs(big_mul(big_init, B, A))
        /\ (IsOne(B) => Limbs(C) = Limbs(A))
        /\ (IsOne(A) => Limbs(C) = Limbs(B))

MultiplyExactWitness ==
    /\ pc = "print"
    /\ A.n = 2 /\ B.n = 2 /\ C.n = 4
    /\ Limbs(A) # Limbs(B)

MultiplyByOneWitness == pc = "print" /\ IsOne(B) /\ A.n = 2

(* C2: when big_from_dec accepts a text, the value of the result is the    *)
(* decimal value of the digit run it scanned (leading zeros adding         *)
(* nothing), and one more big_mul10_add(x, digit) takes the value v to     *)
(* v*10 + digit, the length growing by one limb, nonzero, or not at all.   *)
ParseValueExact ==
    pc = "parsed" =>
        /\ ValueRes(A) = DecRes(ScannedDigits(a_str))
        /\ \A digit \in 0 .. 9 :
              LET y == big_mul10_add(A, digit)
              IN  /\ ValueRes(y) = Mul10AddRes(ValueRes(A), digit)
                  /\ \/ y.n = A.n
                     \/ y.n = A.n + 1 /\ y.d[y.n] # 0

ParseValueWitness ==
    /\ pc = "parsed"
    /\ a_str = <<"0", "9", "9", "9">>
    /\ A.n = 2
    /\ big_mul10_add(A, 9).n = 2

(* C3: big_from_dec accepts a text exactly when it is: whitespace, then at *)
(* most one '+', then one or more digits, running to the end of the text   *)
(* or to a whitespace character (what follows that is not looked at).      *)
WellFormed(s) ==
    \E p \in 1 .. Len(s) : \E q \in p .. Len(s) :
        /\ \A k \in p .. q : IsDigit(s[k])
        /\ (q = Len(s) \/ IsSpace(s[q + 1]))
        /\ \/ \A k \in 1 .. p - 1 : IsSpace(s[k])
           \/ /\ p >= 2
              /\ s[p - 1] = "+"
              /\ \A k \in 1 .. p - 2 : IsSpace(s[k])

ParseAcceptsExactly ==
    pc \in {"parsed", "rejected"} => (pc = "parsed" <=> WellFormed(a_str))

ParseAcceptsWitness ==
    /\ pc = "parsed"
    /\ a_str = <<"+", "3", " ", "a">>

ParseRejectsWitness ==
    /\ pc = "rejected"
    /\ a_str = <<"+", "+", "3">>

(* C4: in main, capacity >= length holds for A, B and C in every state;    *)
(* after both parses A and B are canonical, and the canonical zero when    *)
(* their digits are all zeros; when big_mul has returned C is canonical,   *)
(* and the canonical zero when either operand is zero.                     *)
ResultsCanonical ==
    /\ A.n <= A.cap /\ B.n <= B.cap /\ C.n <= C.cap
    /\ pc \in {"mul", "mulInner", "mulFinish", "print"} =>
          /\ Canonical(A) /\ Canonical(B)
          /\ (AllZeroDigits(ScannedDigits(a_str)) => IsZeroForm(A))
          /\ (AllZeroDigits(ScannedDigits(b_str)) => IsZeroForm(B))
    /\ pc = "print" =>
          /\ Canonical(C)
          /\ (IsZeroForm(A) \/ IsZeroForm(B) => IsZeroForm(C))

ResultsCanonicalWitness ==
    /\ pc = "print"
    /\ C.n > 1
    /\ C.n = A.n + B.n - 1

ZeroProductWitness ==
    /\ pc = "print"
    /\ a_str = <<"0", "0", "0", "\n">>
    /\ B.n > 1
    /\ IsZeroForm(C)

(* C5: for a canonical Big, big_print_hex writes "0x", then the lowercase  *)
(* hexadecimal numeral of its value without a leading zero digit ("0" for  *)
(* zero), then the newline of puts.  The numeral is taken from all limbs   *)
(* at full width, most significant first, with the leading zeros removed.  *)
LimbNibbles(v) ==
    [k \in 1 .. LimbHexDigits |-> (v \div Pow(16, LimbHexDigits - k)) % 16]

RECURSIVE AllNibbles(_, _)
AllNibbles(d, n) == IF n = 0 THEN <<>> ELSE LimbNibbles(d[n]) \o AllNibbles(d, n - 1)

RECURSIVE StripZeros(_)
StripZeros(q) == IF Len(q) > 1 /\ q[1] = 0 THEN StripZeros(Tail(q)) ELSE q

RECURSIVE NibbleString(_)
NibbleString(q) ==
    IF Len(q) = 0 THEN "" ELSE HexChars[q[1] + 1] \o NibbleString(Tail(q))

HexNumeral(x) == StripZeros(AllNibbles(x.d, x.n))

HexMatchesValue ==
    pc = "printed" =>
        /\ out = "0x" \o NibbleString(HexNumeral(C)) \o "\n"
        /\ HexRes(HexNumeral(C)) = ValueRes(C)
        /\ (Len(HexNumeral(C)) > 1 => HexNumeral(C)[1] # 0)

HexPaddingWitness ==
    /\ pc = "printed"
    /\ C.n = 2
    /\ C.d[1] = 9 /\ C.d[2] = 10

(* C6 as the specification states it: on the input lines 123456789 and     *)
(* 987654321 the program prints 0x75cd9045a2a1a.                           *)
KnownInput ==
    <<"1", "2", "3", "4", "5", "6", "7", "8", "9", "\n",
      "9", "8", "7", "6", "5", "4", "3", "2", "1", "\n">>

KnownProductAsStated ==
    (pc = "exit" /\ input = KnownInput) =>
        out = Prompt1 \o Prompt2 \o ResultMsg \o "0x75cd9045a2a1a\n"

(* C6 amended: on the input lines 123456789 and 987654321 the program      *)
(* prints 0x1b13114fbff5385 and ends with status 0; the product it holds   *)
(* has the value 121932631112635269, which is what that numeral denotes.   *)
KnownProductDec == <<1, 2, 1, 9, 3, 2, 6, 3, 1, 1, 1, 2, 6, 3, 5, 2, 6, 9>>
KnownProductHex == <<1, 11, 1, 3, 1, 1, 4, 15, 11, 15, 15, 5, 3, 8, 5>>

KnownProduct ==
    /\ (pc = "print" /\ input = KnownInput) =>
          /\ ValueRes(C) = DecRes(KnownProductDec)
          /\ HexNumeral(C) = KnownProductHex
    /\ (pc = "exit" /\ input = KnownInput) =>
          /\ status = 0
          /\ out = Prompt1 \o Prompt2 \o ResultMsg \o "0x1b13114fbff5385\n"
    /\ HexRes(KnownProductHex) = DecRes(KnownProductDec)

KnownProductWitness == pc = "exit" /\ input = KnownInput /\ status = 0

(* C7 as the specification states it: when big_normalize returns, the      *)
(* buffer is canonical, the canonical zero when every limb was zero.       *)
AllZero(x) == \A k \in 1 .. x.n : x.d[k] = 0

NormalizeAloneCanonical ==
    pc = "normalized" =>
        /\ Canonical(A)
        /\ (AllZero(B) => IsZeroForm(A))

(* C7 amended: big_normalize only lowers the length to the last nonzero    *)
(* limb, leaving limbs and capacity alone; when every limb was zero it     *)
(* returns with length 0.  The buffer is canonical after the statement     *)
(* that follows each call, if (x->n == 0) big_zero(x).                     *)
TopNonZero(x) ==
    CHOOSE k \in 0 .. x.n :
        /\ (k = 0 \/ x.d[k] # 0)
        /\ \A m \in k + 1 .. x.n : x.d[m] = 0

NormalizeTrimsOnly ==
    /\ pc = "normalized" =>
          /\ A.n = TopNonZero(B)
          /\ (A.n = 0 <=> AllZero(B))
          /\ A.d = B.d /\ A.cap = B.cap
    /\ pc = "fixed" =>
          /\ Canonical(A)
          /\ (AllZero(B) => IsZeroForm(A))
          /\ (~AllZero(B) => A.n = TopNonZero(B) /\ A.d = B.d)

NormalizeToEmptyWitness ==
    /\ pc = "normalized"
    /\ B.n = 1 /\ B.d[1] = 0
    /\ A.n = 0

(* C8: when big_reserve returns, the storage holds at least `need` limbs   *)
(* and as many as the capacity says (the byte count did not wrap), and the *)
(* capacity did not shrink.                                                *)
ReserveHoldsNeed ==
    pc = "returned" =>
        /\ A.cap >= need
        /\ A.cap >= B.cap
        /\ Len(A.d) >= need
        /\ Len(A.d) = A.cap

(* C9: when a line of the input is longer than BufSize-1 characters, the   *)
(* program never parses or multiplies: it ends with a non-zero status and  *)
(* the input error message, and prints no result.                          *)
RECURSIVE LineLen(_, _)
LineLen(s, p) ==
    IF p > Len(s) \/ s[p] = "\n" THEN 0 ELSE 1 + LineLen(s, p + 1)

FirstLineTooLong(s) == LineLen(s, 1) > BufSize - 1
SecondLineTooLong(s) ==
    /\ LineLen(s, 1) < Len(s)
    /\ LineLen(s, LineLen(s, 1) + 2) > BufSize - 1

LongLineRejected ==
    (FirstLineTooLong(input) \/ SecondLineTooLong(input)) =>
        /\ pc \in {"readA", "readB", "exit"}
        /\ (pc = "exit" => status # 0 /\ err = InputErrorMsg /\ out = Prompt1 \o Prompt2)

(* C10: in big_mul, before every inner step the sum z[i+j] + a[i]*b[j] +   *)
(* carry is at most Wide-1 and the carry is below Base; at the end of row  *)
(* i the limb z[i+bn] is still 0, so adding the carry loses nothing; every *)
(* index written is below an+bn and the storage past it is untouched.      *)
MulNoOverflow ==
    /\ pc = "mulInner" =>
          /\ i < A.n
          /\ carry < Base
          /\ (j < B.n =>
                 /\ C.d[i + j + 1] + A.d[i + 1] * B.d[j + 1] + carry <= Wide - 1
                 /\ i + j < A.n + B.n)
          /\ (j >= B.n =>
                 /\ j = B.n
                 /\ C.d[i + B.n + 1] = 0
                 /\ i + B.n < A.n + B.n)
    /\ pc \in {"mulInner", "mulFinish"} =>
          /\ \A k \in 1 .. Len(C.d) :
                IF k <= A.n + B.n THEN C.d[k] \in Limb ELSE C.d[k] = Uninit

MulNoOverflowWitness ==
    /\ pc = "mulInner"
    /\ j = B.n
    /\ i = A.n - 1
    /\ B.n = 2 /\ A.n = 2
    /\ carry = Base - 1

---------------------------------------------------------------------------
(* The stepwise actions and the operators describe the same functions. *)

MulStepsAgree == pc = "print" => C = big_mul(big_init, A, B)

ReserveStepsAgree == pc = "returned" => A = big_reserve(B, need)

===========================================================================
